---- MODULE Spec2Model ----
(***************************************************************************)
(* Model of the NATS request/reply layer of the repository:                *)
(*   src/common/src/mq/nats-service.ts   class NatsService                 *)
(*   src/unnamed/part_001                class JwtValidator                *)
(*                                                                         *)
(* Two service instances are modelled.  X is the requesting endpoint: it   *)
(* owns responseCallbacksMap, the reply listener installed by init(), the  *)
(* send-style operations and the process-wide JwtValidator.privateKey.     *)
(* Y is the responding endpoint: it owns availableEvents, the getMessages  *)
(* handlers and the subscribe() subscriptions.  The transport is a pair of *)
(* sets of messages in flight; it delivers at least once and in any order. *)
(*                                                                         *)
(* JwtValidator.verify is modelled twice: as the one await of its callers, *)
(* and step by step, against a secret store whose keys are replaced.       *)
(*                                                                         *)
(* Every await of the source is a point where the task is suspended and    *)
(* another task may run; the code between two awaits is one action.        *)
(***************************************************************************)
EXTENDS Integers, Sequences, FiniteSets, TLC

\* ---------------------------------------------------------------- bounds
MaxReq    == 2   \* send-style calls made on X
MaxTasks  == 2   \* reply-listener callbacks of X in progress at once
MaxInject == 1   \* replies put on X's reply subject by other processes
MaxDup    == 1   \* redeliveries of a reply by the at-least-once transport
MaxHTasks == 1   \* getMessages callbacks of Y in progress at once
MaxEvents == 3   \* subjects in the availableEvents array

\* ---------------------------------------------------------------- domains
Requests  == 1..MaxReq
Tasks     == 1..MaxTasks
HTasks    == 1..MaxHTasks
Subjects  == {"svc.y", "svc.z"}

\* message ids: request r draws the fresh id r from GenerateUUIDv4; a caller
\* of sendMessage may pass an externalMessageId instead; UnknownId is an id
\* this process never registered; NoId is an absent messageId header.
NoId      == 0
ExtIds    == {MaxReq + 1}
UnknownId == MaxReq + 2
MapIds    == Requests \cup ExtIds \cup {UnknownId}

\* ---------------------------------------------------------------- tokens
\* A service token is what jsonwebtoken sees of it: absent, not a JWT, or a
\* JWT with a sub claim, the key that signed it and whether it has expired.
\* The key of a token is named by the public key that validates it.
NoToken   == [kind |-> "none", sub |-> "", key |-> "", expired |-> FALSE]
Garbage   == [kind |-> "garbage", sub |-> "", key |-> "", expired |-> FALSE]
Jwt(sub, key, expired) ==
    [kind |-> "jwt", sub |-> sub, key |-> key, expired |-> expired]

\* the secret store as the services find it at start:
\* publickey/jwt-service/<name>
PublicKeyOf(name) ==
    CASE name = "X" -> "kX"
      [] name = "Y" -> "kY"
      [] OTHER      -> ""

\* the identities a sub claim may name, and the public keys the secret store
\* may hold for each over time ("" = none)
Identities == {"X", "Y", "Z"}

StoreKeys(name) ==
    CASE name = "X" -> {"", "kX", "kX2"}
      [] name = "Y" -> {"", "kY", "kY2"}
      [] OTHER      -> {""}

\* ---------------------------------------------------------------- state
VARIABLES
    secretManager,         \* [instance -> BOOLEAN]: this.secretManager is set
    privateKey,            \* JwtValidator.privateKey of X's process ("" = null)
    secretKeyStored,       \* secretkey/jwt-service/X in the secret store ("" = absent)
    responseCallbacksMap,  \* X: [MapIds -> 0..MaxReq], 0 = no entry, r = closure of call r
    nReq,                  \* number of send-style calls made so far
    req,                   \* [Requests -> call record]: the async body of call r
    promise,               \* [Requests -> outcome]: the promise created by call r
    race,                  \* [Requests -> outcome]: Promise.race of sendMessageWithTimeout
    timer,                 \* [Requests -> "none" | "armed" | "fired"]: its setTimeout
    fnCalls,               \* [Requests -> Nat]: times the closure of call r was invoked
    reqMsgs,               \* messages in flight to the subjects Y listens on
    replyMsgs,             \* messages in flight to X's replySubject
    lt,                    \* [Tasks -> record]: invocations of the reply callback
    injected,              \* replies put on the reply subject by other processes
    redelivered,           \* replies the transport delivered once more
    lastDropped,           \* id of the last reply the listener found no entry for
    availableEvents,       \* Y: [set |-> FALSE] is null, else the array in list;
                           \*    in SpecPublisher the field of the publishing instance
    handlers,              \* Y: [Subjects -> "none" | "respond" | "noRespond"], getMessages
    ht,                    \* Y: [HTasks -> record]: invocations of a getMessages callback
    subscriptions,         \* Y: subjects connection.subscribe was called for by subscribe()
    subResult,             \* Y: [Subjects -> "none" | "ok" | "thrown"], last subscribe()
    cbLog,                 \* Y: the calls of a getMessages handler: its subject,
                           \*    whether the allow-list excluded it at the access check,
                           \*    the token of the message and whether verify was
                           \*    called with a secret manager
    addResult,             \* Y: how the calls of addAdditionalAvailableEvents made so
                           \*    far ended: a subset of {"ok", "thrown"}
    sl,                    \* Y: [Subjects -> record]: the message loop of subscribe()
    subLog,                \* Y: the calls of a subscribe() callback
    publicKeys,            \* the secret store: publickey/jwt-service/<name> ("" = absent)
    vt                     \* a call of JwtValidator.verify, step by step

xvars == <<secretManager, privateKey, secretKeyStored, responseCallbacksMap, nReq,
           req, promise, race, timer, fnCalls, reqMsgs, replyMsgs, lt, injected,
           redelivered, lastDropped>>
yvars == <<availableEvents, handlers, ht, subscriptions, subResult, cbLog>>
zvars == <<addResult, sl, subLog, publicKeys, vt>>
vars  == <<xvars, yvars, zvars>>

\* ---------------------------------------------------------------- JwtValidator.verify
\* jwt.decode(token)?.sub, part_001 lines 74-75: "" when the token does not
\* decode or has no sub claim
DecodeSub(token) == IF token.kind = "jwt" THEN token.sub ELSE ""

\* jwt.verify(token, key, { algorithms: ['RS256'] }), line 85: TRUE when it
\* returns the payload, FALSE when it throws
JwtVerifiesAnything(token, key) == TRUE
JwtVerifies(token, key) ==
    token.kind = "jwt" /\ token.key = key /\ ~token.expired

\* what a step of verify comes to: it returns a signer ('' included), it
\* throws an Error with a message, or it suspends at mgr.getSecrets
VerifyReturn(signer) == [out |-> "return", signer |-> signer, error |-> ""]
VerifyThrow(error)   == [out |-> "throw",  signer |-> "",     error |-> error]

\* lines 71-78: up to `await mgr.getSecrets(...)`
VerifyHead(token, mgr) ==
    IF ~mgr THEN VerifyReturn("")
    ELSE IF token.kind = "none" THEN VerifyReturn("")
    ELSE IF DecodeSub(token) = "" THEN VerifyThrow("JWTValidator: missing sub claim")
    ELSE [out |-> "fetch", signer |-> DecodeSub(token), error |-> ""]

\* lines 80-92: from the secret sec that getSecrets gave for the signer; the
\* Error of line 87 is thrown inside the try and replaced at line 91
VerifyTail(token, signer, sec) ==
    IF sec = "" THEN VerifyThrow("JWTValidator: no publicKey")
    ELSE IF JwtVerifies(token, sec) /\ token.sub = signer THEN VerifyReturn(signer)
    ELSE VerifyThrow("JWTValidator: invalid or expired token")

\* JwtValidator.verify as the one await of its callers: "" when it returns
\* (the signer or ''), otherwise the message of the Error it throws.
Verify(token, mgr) ==
    LET h == VerifyHead(token, mgr)
    IN IF h.out = "fetch" THEN VerifyTail(token, h.signer, publicKeys[h.signer]).error
                          ELSE h.error

\* a call of verify that has not been made
NoVerify == [pc |-> "none", token |-> NoToken, mgr |-> FALSE, signer |-> "",
             sec |-> "", result |-> "", error |-> ""]

\* verify is called, lines 70-78
VerifyCall(token, mgr) ==
    /\ vt.pc # "fetch"
    /\ LET h == VerifyHead(token, mgr)
       IN vt' = [pc |-> IF h.out = "fetch" THEN "fetch" ELSE "done",
                 token |-> token, mgr |-> mgr, signer |-> h.signer, sec |-> "",
                 result |-> "", error |-> h.error]
    /\ UNCHANGED <<xvars, yvars, addResult, sl, subLog, publicKeys>>

\* getSecrets resumes with the public key the store holds now, lines 78-92
VerifyFetched ==
    /\ vt.pc = "fetch"
    /\ LET sec == publicKeys[vt.signer]
           t   == VerifyTail(vt.token, vt.signer, sec)
       IN vt' = [vt EXCEPT !.pc = "done", !.sec = sec, !.result = t.signer,
                           !.error = t.error]
    /\ UNCHANGED <<xvars, yvars, addResult, sl, subLog, publicKeys>>

\* the operators of the secret store replace or remove the public key of a
\* service
RotateKey(name, key) ==
    /\ publicKeys[name] # key
    /\ publicKeys' = [publicKeys EXCEPT ![name] = key]
    /\ UNCHANGED <<xvars, yvars, addResult, sl, subLog, vt>>

\* the tokens verify is called with
VerifyTokens ==
    {NoToken, Garbage} \cup
    {Jwt(sub, key, expired) : sub \in {""} \cup Identities,
                              key \in {"kX", "kX2", "kY", "kM"},
                              expired \in BOOLEAN}

\* ---------------------------------------------------------------- promises
\* via records what settled a promise: "timeout", "noreply" (line 197),
\* "publish" (the async function publish), or the reply callback calling the
\* closure: "reply" at line 105, after JwtValidator.verify returned,
\* "replyAuthFailed" at line 108, after it threw, and "replyUnverified" at
\* line 101, where it was not called.
Pending == [st |-> "pending", body |-> "", error |-> "", code |-> 0, via |-> ""]

Resolved(body, g) ==
    [st |-> "resolved", body |-> body, error |-> "", code |-> 0, via |-> g]

Rejected(error, code, g) ==
    [st |-> "rejected", body |-> "", error |-> error, code |-> code, via |-> g]

\* resolve()/reject() of a JavaScript promise: only the first call settles it
SettleOverwrites(p, outcome) == outcome
Settle(p, outcome) == IF p.st = "pending" THEN outcome ELSE p

\* new MessageError(error, code): lines 11-18
MessageError(error, code, g) == Rejected(error, code, g)

\* the closure sendMessage stores in responseCallbacksMap: lines 189-195
SendCallback(p, body, error, code, g) ==
    IF error # "" THEN Settle(p, MessageError(error, code, g))
                  ELSE Settle(p, Resolved(body, g))

\* the closure sendRawMessage stores: lines 242-248; reject(error) rejects
\* with the bare error string, so the rejection carries no code
RawCallback(p, body, error, code, g) ==
    IF error # "" THEN Settle(p, Rejected(error, 0, g))
                  ELSE Settle(p, Resolved(body, g))

Callback(kind, p, body, error, code, g) ==
    IF kind = "raw" THEN RawCallback(p, body, error, code, g)
                    ELSE SendCallback(p, body, error, code, g)

\* `Timeout exceed (${subject})`: line 223
TimeoutError(subject) == "Timeout exceed (" \o subject \o ")"

\* what the caller of call r holds: the race for sendMessageWithTimeout
\* (line 227), the promise itself otherwise
Returned(r) == IF req[r].kind = "timeout" THEN race[r] ELSE promise[r]

\* ---------------------------------------------------------------- records
\* excluded: whether the allow-list of the instance excluded the subject when
\* publish was called
NoCall == [kind |-> "none", id |-> NoId, subject |-> "", pc |-> "none",
           tok |-> NoToken, mgr |-> FALSE, reply |-> FALSE, excluded |-> FALSE]

NoReply == [id |-> NoId, falsy |-> FALSE, body |-> "", error |-> "", code |-> 0,
            tok |-> NoToken, from |-> "", mgr |-> FALSE]

Idle == [pc |-> "idle", msg |-> NoReply, fn |-> 0, mgr |-> FALSE]

MapGetAnyPending(id) ==
    LET live == {i \in MapIds : responseCallbacksMap[i] # 0}
    IN IF id \in MapIds /\ responseCallbacksMap[id] # 0 THEN responseCallbacksMap[id]
       ELSE IF live = {} THEN 0
       ELSE responseCallbacksMap[CHOOSE i \in live : TRUE]
MapGet(id) == IF id \in MapIds THEN responseCallbacksMap[id] ELSE 0
MapDeleteNothing(map, id) == map
MapDelete(map, id) == IF id \in MapIds THEN [map EXCEPT ![id] = 0] ELSE map
MapSet(map, id, r) == [map EXCEPT ![id] = r]

XInit ==
    /\ secretManager = [i \in {"X", "Y"} |-> FALSE]
    /\ privateKey = ""
    /\ secretKeyStored \in {"", "kX"}
    /\ responseCallbacksMap = [i \in MapIds |-> 0]
    /\ nReq = 0
    /\ req = [r \in Requests |-> NoCall]
    /\ promise = [r \in Requests |-> Pending]
    /\ race = [r \in Requests |-> Pending]
    /\ timer = [r \in Requests |-> "none"]
    /\ fnCalls = [r \in Requests |-> 0]
    /\ reqMsgs = {}
    /\ replyMsgs = {}
    /\ lt = [t \in Tasks |-> Idle]
    /\ injected = 0
    /\ redelivered = 0
    /\ lastDropped = NoId

\* ---------------------------------------------------------------- JwtValidator.sign
\* The synchronous head of JwtValidator.sign (part_001 lines 56-61 and 44-47):
\* '' without a secret manager, the cached key when there is one, and
\* otherwise a suspension at `await mgr.getSecrets(...)`.
SignStart(call) ==
    IF ~call.mgr THEN [call EXCEPT !.pc = "encode", !.tok = NoToken]
    ELSE IF privateKey # "" THEN [call EXCEPT !.pc = "encode",
                                               !.tok = Jwt("X", privateKey, FALSE)]
    ELSE [call EXCEPT !.pc = "fetchKey"]

NewCall(kind, id, subject, reply) ==
    SignStart([kind |-> kind, id |-> id, subject |-> subject, pc |-> "none",
               tok |-> NoToken, mgr |-> secretManager["X"], reply |-> reply,
               excluded |-> FALSE])

\* loadPrivateKey resumes with the secret (part_001 lines 47-53, 61-67): it
\* throws when the key is absent, and caches and signs with it otherwise.  A
\* throw inside `new Promise(async ...)` settles nothing; inside the async
\* function publish it rejects the promise publish returned.
FetchKeyDone(r) ==
    /\ req[r].pc = "fetchKey"
    /\ IF secretKeyStored = ""
       THEN /\ req' = [req EXCEPT ![r].pc = "failed"]
            /\ promise' = IF req[r].kind = "publish"
                          THEN [promise EXCEPT ![r] = Settle(@,
                                  Rejected("JWTValidator: no privateKey", 0,
                                           "publish"))]
                          ELSE promise
            /\ UNCHANGED privateKey
       ELSE /\ privateKey' = secretKeyStored
            /\ req' = [req EXCEPT ![r].pc = "encode",
                                  ![r].tok = Jwt("X", secretKeyStored, FALSE)]
            /\ UNCHANGED promise
    /\ UNCHANGED <<secretManager, secretKeyStored, responseCallbacksMap, nReq, race,
                   timer, fnCalls, reqMsgs, replyMsgs, lt, injected, redelivered,
                   lastDropped, yvars,
                   zvars>>

\* the operators of the secret store replace the signing key of X's service:
\* secretkey/jwt-service/X
RotateSecretKey(key) ==
    /\ secretKeyStored # key
    /\ secretKeyStored' = key
    /\ UNCHANGED <<secretManager, privateKey, responseCallbacksMap, nReq, req, promise,
                   race, timer, fnCalls, reqMsgs, replyMsgs, lt, injected, redelivered,
                   lastDropped, yvars, zvars>>

\* ---------------------------------------------------------------- send-style calls
\* what connection.publish puts on the transport for call r.  publish()
\* passes the token as the option `serviceToken`, which is no header, so its
\* message has no headers at all (lines 137-145); the others append the
\* messageId and serviceToken headers (lines 186-205, 238-256).
Envelope(call) ==
    IF call.kind = "publish"
    THEN [id |-> NoId, subject |-> call.subject, tok |-> NoToken, hdr |-> FALSE,
          reply |-> call.reply, mgr |-> call.mgr]
    ELSE [id |-> call.id, subject |-> call.subject, tok |-> call.tok, hdr |-> TRUE,
          reply |-> TRUE, mgr |-> call.mgr]

\* sendMessage, lines 182-207, up to its first suspension
SendMessage(subject, isResponseCallback, externalMessageId) ==
    /\ nReq < MaxReq
    /\ LET r  == nReq + 1
           id == IF externalMessageId = NoId THEN r ELSE externalMessageId
       IN /\ nReq' = r
          /\ req' = [req EXCEPT ![r] =
                NewCall(IF isResponseCallback THEN "send" ELSE "noreply",
                        id, subject, TRUE)]
          /\ responseCallbacksMap' =
                IF isResponseCallback THEN MapSet(responseCallbacksMap, id, r)
                                      ELSE responseCallbacksMap
          /\ promise' = IF isResponseCallback THEN promise
                        ELSE [promise EXCEPT ![r] =
                                Settle(@, Resolved("null", "noreply"))]
    /\ UNCHANGED <<secretManager, privateKey, secretKeyStored, race, timer, fnCalls,
                   reqMsgs, replyMsgs, lt, injected, redelivered,
                   lastDropped, yvars,
                   zvars>>

\* sendMessageWithTimeout, lines 215-228: sendMessage with a fresh id, and a
\* timer armed
SendMessageWithTimeout(subject) ==
    /\ nReq < MaxReq
    /\ LET r == nReq + 1
       IN /\ nReq' = r
          /\ req' = [req EXCEPT ![r] = NewCall("timeout", r, subject, TRUE)]
          /\ responseCallbacksMap' = MapSet(responseCallbacksMap, r, r)
          /\ timer' = [timer EXCEPT ![r] = "armed"]
    /\ UNCHANGED <<secretManager, privateKey, secretKeyStored, promise, race, fnCalls,
                   reqMsgs, replyMsgs, lt, injected, redelivered,
                   lastDropped, yvars,
                   zvars>>

\* sendRawMessage, lines 235-258
SendRawMessage(subject) ==
    /\ nReq < MaxReq
    /\ LET r == nReq + 1
       IN /\ nReq' = r
          /\ req' = [req EXCEPT ![r] = NewCall("raw", r, subject, TRUE)]
          /\ responseCallbacksMap' = MapSet(responseCallbacksMap, r, r)
    /\ UNCHANGED <<secretManager, privateKey, secretKeyStored, promise, race, timer,
                   fnCalls, reqMsgs, replyMsgs, lt, injected, redelivered,
                   lastDropped, yvars,
                   zvars>>

\* publish, lines 135-146, up to its first suspension: it reads
\* this.secretManager and nothing else of the instance
Publish(subject, replySubject) ==
    /\ nReq < MaxReq
    /\ LET r == nReq + 1
       IN /\ nReq' = r
          /\ req' = [req EXCEPT ![r] =
                [NewCall("publish", NoId, subject, replySubject)
                    EXCEPT !.excluded = availableEvents.set
                              /\ \A i \in 1..Len(availableEvents.list) :
                                    availableEvents.list[i] # subject]]
    /\ UNCHANGED <<secretManager, privateKey, secretKeyStored, responseCallbacksMap,
                   promise, race, timer, fnCalls, reqMsgs, replyMsgs, lt, injected,
                   redelivered, lastDropped, yvars,
                   zvars>>

\* `this.connection.publish(subject, await this.codec.encode(data), ...)`:
\* the transport takes the message (ok) or throws
EncodePublish(r, ok) ==
    /\ req[r].pc = "encode"
    /\ req' = [req EXCEPT ![r].pc = IF ok THEN "sent" ELSE "failed",
                          ![r].tok = NoToken]
    /\ reqMsgs' = IF ok THEN reqMsgs \cup {Envelope(req[r])} ELSE reqMsgs
    /\ promise' = IF req[r].kind = "publish"
                  THEN [promise EXCEPT ![r] = Settle(@,
                          IF ok THEN Resolved("undefined", "publish")
                                ELSE Rejected("publish failed", 0,
                                              "publish"))]
                  ELSE promise
    /\ UNCHANGED <<secretManager, privateKey, secretKeyStored, responseCallbacksMap,
                   nReq, race, timer, fnCalls, replyMsgs, lt, injected, redelivered,
                   lastDropped, yvars,
                   zvars>>

\* the setTimeout callback of sendMessageWithTimeout, lines 221-224
TimerFire(r) ==
    /\ timer[r] = "armed"
    /\ timer' = [timer EXCEPT ![r] = "fired"]
    /\ responseCallbacksMap' = MapDelete(responseCallbacksMap, req[r].id)
    /\ race' = [race EXCEPT ![r] = Settle(@,
                  Rejected(TimeoutError(req[r].subject), 0,
                           "timeout"))]
    /\ UNCHANGED <<secretManager, privateKey, secretKeyStored, nReq, req, promise,
                   fnCalls, reqMsgs, replyMsgs, lt, injected, redelivered,
                   lastDropped, yvars,
                   zvars>>

\* ---------------------------------------------------------------- reply listener
\* The closure of call r is invoked with (body, error, code), lines 101, 105
\* and 108, and line 111 deletes the entry of messageId: one synchronous run.
\* The race of sendMessageWithTimeout follows its messagePromise (line 227).
InvokeAndDelete(t, body, error, code, g) ==
    LET r == lt[t].fn
        p == Callback(req[r].kind, promise[r], body, error, code, g)
    IN /\ fnCalls' = [fnCalls EXCEPT ![r] = @ + 1]
       /\ promise' = [promise EXCEPT ![r] = p]
       /\ race' = IF req[r].kind = "timeout" /\ p.st # "pending"
                  THEN [race EXCEPT ![r] = Settle(@, p)]
                  ELSE race
       /\ responseCallbacksMap' = MapDelete(responseCallbacksMap, lt[t].msg.id)
       /\ lt' = [lt EXCEPT ![t] = Idle]

\* the callback of init() is called with a message, lines 93-99: it reads the
\* headers, looks the entry up and, when there is one, suspends at
\* `await this.codec.decode(msg.data)`.  The transport may deliver the same
\* message again (keep).
ReplyArrive(t, m, keep) ==
    /\ lt[t].pc = "idle"
    /\ \A u \in Tasks : u < t => lt[u].pc # "idle"
    /\ m \in replyMsgs
    /\ keep => redelivered < MaxDup
    /\ replyMsgs' = IF keep THEN replyMsgs ELSE replyMsgs \ {m}
    /\ redelivered' = IF keep THEN redelivered + 1 ELSE redelivered
    /\ IF MapGet(m.id) = 0
       THEN /\ lastDropped' = m.id
            /\ UNCHANGED lt
       ELSE /\ lt' = [lt EXCEPT ![t] = [pc |-> "decode", msg |-> m,
                                        fn |-> MapGet(m.id), mgr |-> FALSE]]
            /\ UNCHANGED lastDropped
    /\ UNCHANGED <<secretManager, privateKey, secretKeyStored, responseCallbacksMap,
                   nReq, req, promise, race, timer, fnCalls, reqMsgs, injected, yvars,
                   zvars>>

\* the decode resumes, lines 99-104: a falsy message goes to fn(null) and the
\* delete; any other suspends at `await JwtValidator.verify(...)`, called with
\* the secret manager of this moment
ReplyDecoded(t) ==
    /\ lt[t].pc = "decode"
    /\ IF lt[t].msg.falsy
       THEN /\ InvokeAndDelete(t, "null", "", 0, "replyUnverified")
       ELSE /\ lt' = [lt EXCEPT ![t].pc = "verify", ![t].mgr = secretManager["X"]]
            /\ UNCHANGED <<responseCallbacksMap, promise, race, fnCalls>>
    /\ UNCHANGED <<secretManager, privateKey, secretKeyStored, nReq, req, timer,
                   reqMsgs, replyMsgs, injected, redelivered,
                   lastDropped, yvars,
                   zvars>>

\* the verify resumes, lines 104-111
ReplyVerified(t) ==
    /\ lt[t].pc = "verify"
    /\ LET m == lt[t].msg
           e == Verify(m.tok, lt[t].mgr)
       IN IF e = ""
          THEN InvokeAndDelete(t, m.body, m.error, m.code, "reply")
          ELSE InvokeAndDelete(t, "null", e, 401, "replyAuthFailed")
    /\ UNCHANGED <<secretManager, privateKey, secretKeyStored, nReq, req, timer,
                   reqMsgs, replyMsgs, injected, redelivered,
                   lastDropped, yvars,
                   zvars>>

\* ---------------------------------------------------------------- environment
\* Other processes can publish to X's reply subject, which every request
\* carries: a reply whose data decodes to a falsy value, to a message with a
\* body or to a message with an error and a code, and with no token, a token
\* signed with a key that is not Y's (BadToken), or a token of Y.
BadToken == Jwt("Y", "kM", FALSE)
YToken   == Jwt("Y", "kY", FALSE)

ReplyData ==
    { [falsy |-> TRUE,  body |-> "",       error |-> "",          code |-> 0],
      [falsy |-> FALSE, body |-> "forged", error |-> "",          code |-> 0],
      [falsy |-> FALSE, body |-> "null",   error |-> "Forbidden", code |-> 403] }

ForgedTokens(d) ==
    IF d.falsy THEN {BadToken}
    ELSE IF d.error = "" THEN {NoToken, BadToken, YToken}
    ELSE {NoToken}

ReplyMessage(id, d, tok, from, mgr) ==
    [id |-> id, falsy |-> d.falsy, body |-> d.body, error |-> d.error,
     code |-> d.code, tok |-> tok, from |-> from, mgr |-> mgr]

InjectReply(id, d, tok) ==
    /\ injected < MaxInject
    /\ injected' = injected + 1
    /\ replyMsgs' = replyMsgs \cup {ReplyMessage(id, d, tok, "other", FALSE)}
    /\ UNCHANGED <<secretManager, privateKey, secretKeyStored, responseCallbacksMap,
                   nReq, req, promise, race, timer, fnCalls, reqMsgs, lt, redelivered,
                   lastDropped, yvars,
                   zvars>>

\* a request put on one of Y's subjects by another process, or by X's
\* publish when hdr is FALSE: with or without a reply subject, and with no
\* token, a token of X, or a token signed with a key that is not X's
RequestTokens == {NoToken, Jwt("X", "kX", FALSE), Jwt("X", "kM", FALSE)}

InjectRequest(id, subject, tok, reply) ==
    /\ injected < MaxInject
    /\ injected' = injected + 1
    /\ reqMsgs' = reqMsgs \cup
          {[id |-> id, subject |-> subject, tok |-> tok, hdr |-> TRUE,
            reply |-> reply, mgr |-> FALSE]}
    /\ UNCHANGED <<secretManager, privateKey, secretKeyStored, responseCallbacksMap,
                   nReq, req, promise, race, timer, fnCalls, replyMsgs, lt, redelivered,
                   lastDropped, yvars,
                   zvars>>

\* configureSecretManager, lines 81-83
ConfigureSecretManager(i) ==
    /\ ~secretManager[i]
    /\ secretManager' = [secretManager EXCEPT ![i] = TRUE]
    /\ UNCHANGED <<privateKey, secretKeyStored, responseCallbacksMap, nReq, req,
                   promise, race, timer, fnCalls, reqMsgs, replyMsgs, lt, injected,
                   redelivered, lastDropped, yvars,
                   zvars>>

\* ---------------------------------------------------------------- access control
\* Array.prototype.includes on the availableEvents array
RECURSIVE Includes(_, _)
Includes(list, subject) ==
    IF list = <<>> THEN FALSE
    ELSE Head(list) = subject \/ Includes(Tail(list), subject)

\* `this.availableEvents && !this.availableEvents.includes(subject)`:
\* lines 154 and 279
NeverRefused(events, subject) == FALSE
Refused(events, subject) == events.set /\ ~Includes(events.list, subject)

EventLists == {<<s>> : s \in Subjects}

\* configureAvailableEvents, lines 67-69
ConfigureAvailableEvents(list) ==
    /\ availableEvents' = [set |-> TRUE, list |-> list]
    /\ UNCHANGED <<xvars, handlers, ht, subscriptions, subResult, cbLog,
                   zvars>>

\* addAdditionalAvailableEvents, lines 74-76, had it taken a null
\* availableEvents for an empty array
AddAdditionalNullAsEmpty(list) ==
    /\ Len(availableEvents.list) + Len(list) <= MaxEvents
    /\ availableEvents' = [set |-> TRUE, list |-> availableEvents.list \o list]
    /\ addResult' = addResult \cup {"ok"}
    /\ UNCHANGED <<xvars, handlers, ht, subscriptions, subResult, cbLog, sl, subLog,
                   publicKeys, vt>>

\* addAdditionalAvailableEvents, lines 74-76: the spread of a null
\* this.availableEvents throws a TypeError before the assignment; otherwise
\* the new array is the old one followed by the argument
AddAdditionalAvailableEvents(list) ==
    /\ IF ~availableEvents.set
       THEN /\ addResult' = addResult \cup {"thrown"}
            /\ UNCHANGED availableEvents
       ELSE /\ Len(availableEvents.list) + Len(list) <= MaxEvents
            /\ availableEvents' = [set |-> TRUE, list |-> availableEvents.list \o list]
            /\ addResult' = addResult \cup {"ok"}
    /\ UNCHANGED <<xvars, handlers, ht, subscriptions, subResult, cbLog, sl, subLog,
                   publicKeys, vt>>

\* subscribe, lines 153-158: throws before connection.subscribe when the
\* subject is refused
Subscribe(subject) ==
    /\ IF Refused(availableEvents, subject)
       THEN /\ subResult' = [subResult EXCEPT ![subject] = "thrown"]
            /\ UNCHANGED subscriptions
       ELSE /\ subResult' = [subResult EXCEPT ![subject] = "ok"]
            /\ subscriptions' = subscriptions \cup {subject}
    /\ UNCHANGED <<xvars, availableEvents, handlers, ht, cbLog,
                   zvars>>

\* ---------------------------------------------------------------- getMessages
HTaskIdle == [pc |-> "idle", id |-> NoId, subject |-> "", tok |-> NoToken,
              reply |-> FALSE, noRespond |-> FALSE, mgr |-> FALSE,
              excluded |-> FALSE, result |-> ""]

\* what a handler passed to getMessages may return: a message with a body, or
\* a falsy value; or it throws
HandlerResults == {"pong", "falsy", "throws"}

\* the 403 body of lines 281-287 and the encoded return value of line 296
ForbiddenData == [falsy |-> FALSE, body |-> "null", error |-> "Forbidden", code |-> 403]
ResultData(result) ==
    IF result = "falsy" THEN [falsy |-> TRUE, body |-> "", error |-> "", code |-> 0]
    ELSE [falsy |-> FALSE, body |-> result, error |-> "", code |-> 0]

\* msg.respond(data, { headers: head }): head holds the messageId of the
\* request and nothing else (lines 274-277), and nothing is sent when the
\* request named no reply subject
Respond(task, data) ==
    IF task.reply
    THEN replyMsgs \cup {ReplyMessage(task.id, data, NoToken, "Y", secretManager["Y"])}
    ELSE replyMsgs

\* getMessages, lines 266-268: the subscription with its callback
GetMessages(subject, noRespond) ==
    /\ handlers[subject] = "none"
    /\ handlers' = [handlers EXCEPT ![subject] =
                       IF noRespond THEN "noRespond" ELSE "respond"]
    /\ UNCHANGED <<xvars, availableEvents, ht, subscriptions, subResult, cbLog,
                   zvars>>

\* the callback is called with a message, lines 269-293: the access check,
\* and then a suspension at the encode of the 403 body or at the verify; with
\* noRespond the refusal is a ForbiddenException, which line 300 catches
HandlerArrive(h, m) ==
    /\ ht[h].pc = "idle"
    /\ m \in reqMsgs
    /\ handlers[m.subject] # "none"
    /\ reqMsgs' = reqMsgs \ {m}
    /\ LET noRespond == handlers[m.subject] = "noRespond"
           refused   == Refused(availableEvents, m.subject)
           task == [HTaskIdle EXCEPT !.id = m.id, !.subject = m.subject,
                       !.tok = m.tok, !.reply = m.reply, !.noRespond = noRespond,
                       !.mgr = secretManager["Y"],
                       !.excluded = availableEvents.set
                                    /\ \A i \in 1..Len(availableEvents.list) :
                                          availableEvents.list[i] # m.subject]
       IN ht' = [ht EXCEPT ![h] =
                   IF refused
                   THEN IF noRespond THEN HTaskIdle
                                     ELSE [task EXCEPT !.pc = "forbidden"]
                   ELSE [task EXCEPT !.pc = "verify"]]
    /\ UNCHANGED <<secretManager, privateKey, secretKeyStored, responseCallbacksMap,
                   nReq, req, promise, race, timer, fnCalls, replyMsgs, lt, injected,
                   redelivered, lastDropped, availableEvents, handlers, subscriptions,
                   subResult, cbLog,
                   zvars>>

\* the encode of the 403 body resumes, lines 281-287
HandlerForbidden(h) ==
    /\ ht[h].pc = "forbidden"
    /\ replyMsgs' = Respond(ht[h], ForbiddenData)
    /\ ht' = [ht EXCEPT ![h] = HTaskIdle]
    /\ UNCHANGED <<secretManager, privateKey, secretKeyStored, responseCallbacksMap,
                   nReq, req, promise, race, timer, fnCalls, reqMsgs, lt, injected,
                   redelivered, lastDropped, availableEvents, handlers, subscriptions,
                   subResult, cbLog,
                   zvars>>

\* the verify resumes, lines 293-298: a throw is caught at line 300 and the
\* message is given up; otherwise the callback suspends at the decode
HandlerVerified(h) ==
    /\ ht[h].pc = "verify"
    /\ ht' = [ht EXCEPT ![h] = IF Verify(ht[h].tok, ht[h].mgr) = ""
                                THEN [@ EXCEPT !.pc = "decode"]
                                ELSE HTaskIdle]
    /\ UNCHANGED <<xvars, availableEvents, handlers, subscriptions, subResult, cbLog,
                   zvars>>

\* the decode resumes and cb is called, lines 296 and 298.  With noRespond
\* nothing follows; otherwise the callback awaits cb: a throw is caught at
\* line 300, a value goes on to the encode.
HandlerInvoke(h, result) ==
    /\ ht[h].pc = "decode"
    /\ cbLog' = cbLog \cup {[subject |-> ht[h].subject, excluded |-> ht[h].excluded,
                              tok |-> ht[h].tok, mgr |-> ht[h].mgr]}
    /\ ht' = [ht EXCEPT ![h] = IF ht[h].noRespond \/ result = "throws"
                                THEN HTaskIdle
                                ELSE [@ EXCEPT !.pc = "respond", !.result = result]]
    /\ UNCHANGED <<xvars, availableEvents, handlers, subscriptions, subResult,
                   zvars>>

\* the encode resumes and msg.respond sends the reply, line 296
HandlerRespond(h) ==
    /\ ht[h].pc = "respond"
    /\ replyMsgs' = Respond(ht[h], ResultData(ht[h].result))
    /\ ht' = [ht EXCEPT ![h] = HTaskIdle]
    /\ UNCHANGED <<secretManager, privateKey, secretKeyStored, responseCallbacksMap,
                   nReq, req, promise, race, timer, fnCalls, reqMsgs, lt, injected,
                   redelivered, lastDropped, availableEvents, handlers, subscriptions,
                   subResult, cbLog,
                   zvars>>

\* ---------------------------------------------------------------- subscribe loop
\* The loop `for await (const m of _sub)` of lines 159-170 takes one message
\* at a time.  A message taken by the loop is not also given to a getMessages
\* callback: the model delivers each message once, to either.
\* an iteration of the loop that has not begun
SubIdle == [pc |-> "idle", tok |-> NoToken, mgr |-> FALSE]

\* The loop takes the next message, lines 160-163: m.headers is undefined for
\* a message without headers, so `m.headers.get` throws a TypeError that line
\* 166 catches; otherwise the loop suspends at the verify.
SubNext(s, m) ==
    /\ s \in subscriptions
    /\ sl[s].pc = "idle"
    /\ m \in reqMsgs
    /\ m.subject = s
    /\ reqMsgs' = reqMsgs \ {m}
    /\ sl' = IF m.hdr
             THEN [sl EXCEPT ![s] = [pc |-> "verify", tok |-> m.tok,
                                     mgr |-> secretManager["Y"]]]
             ELSE sl
    /\ UNCHANGED <<secretManager, privateKey, secretKeyStored, responseCallbacksMap,
                   nReq, req, promise, race, timer, fnCalls, replyMsgs, lt, injected,
                   redelivered, lastDropped, yvars, addResult, subLog, publicKeys, vt>>

\* the verify resumes, lines 163-164: a throw is caught at line 166 and the
\* loop goes on to the next message; otherwise it suspends at the decode
SubVerified(s) ==
    /\ sl[s].pc = "verify"
    /\ sl' = [sl EXCEPT ![s] = IF Verify(sl[s].tok, sl[s].mgr) = ""
                                THEN [@ EXCEPT !.pc = "decode"]
                                ELSE SubIdle]
    /\ UNCHANGED <<xvars, yvars, addResult, subLog, publicKeys, vt>>

\* the decode resumes and cb is called, lines 164-165; what cb throws is
\* caught at line 166
SubDecoded(s) ==
    /\ sl[s].pc = "decode"
    /\ subLog' = subLog \cup {[subject |-> s, tok |-> sl[s].tok, mgr |-> sl[s].mgr]}
    /\ sl' = [sl EXCEPT ![s] = SubIdle]
    /\ UNCHANGED <<xvars, yvars, addResult, publicKeys, vt>>

\* a message without headers put on one of Y's subjects, as publish() of
\* another instance sends it
InjectPublished(subject, reply) ==
    /\ injected < MaxInject
    /\ injected' = injected + 1
    /\ reqMsgs' = reqMsgs \cup
          {Envelope([NoCall EXCEPT !.kind = "publish", !.subject = subject,
                                   !.reply = reply])}
    /\ UNCHANGED <<secretManager, privateKey, secretKeyStored, responseCallbacksMap,
                   nReq, req, promise, race, timer, fnCalls, replyMsgs, lt, redelivered,
                   lastDropped, yvars, zvars>>

\* ---------------------------------------------------------------- specifications
YInit ==
    /\ availableEvents = [set |-> FALSE, list |-> <<>>]
    /\ handlers = [s \in Subjects |-> "none"]
    /\ ht = [h \in HTasks |-> HTaskIdle]
    /\ subscriptions = {}
    /\ subResult = [s \in Subjects |-> "none"]
    /\ cbLog = {}

ZInit ==
    /\ addResult = {}
    /\ sl = [s \in Subjects |-> SubIdle]
    /\ subLog = {}
    /\ publicKeys = [n \in Identities |-> PublicKeyOf(n)]
    /\ vt = NoVerify

Init == XInit /\ YInit /\ ZInit

\* the reply-expecting calls of X and the tasks they start
NextSend ==
    \/ \E s \in Subjects, e \in {NoId} \cup ExtIds : SendMessage(s, TRUE, e)
    \/ \E s \in Subjects : SendMessageWithTimeout(s)
    \/ \E s \in Subjects : SendRawMessage(s)
    \/ \E r \in Requests : FetchKeyDone(r)
    \/ \E r \in Requests, ok \in BOOLEAN : EncodePublish(r, ok)
    \/ \E r \in Requests : TimerFire(r)
    \/ ConfigureSecretManager("X")

\* the other send-style calls of X
NextSendOther ==
    \/ \E s \in Subjects : SendMessage(s, FALSE, NoId)
    \/ \E s \in Subjects : Publish(s, FALSE)

\* the reply listener init() installs on X
NextListener ==
    \/ \E t \in Tasks, m \in replyMsgs, keep \in BOOLEAN : ReplyArrive(t, m, keep)
    \/ \E t \in Tasks : ReplyDecoded(t)
    \/ \E t \in Tasks : ReplyVerified(t)

\* other processes publishing to X's reply subject and to Y's subjects
NextReplies ==
    \E id \in MapIds, d \in ReplyData : \E tok \in ForgedTokens(d) : InjectReply(id, d, tok)

NextRequests ==
    \E id \in {NoId} \cup ExtIds, s \in Subjects, tok \in RequestTokens, reply \in BOOLEAN :
        InjectRequest(id, s, tok, reply)

\* the getMessages callbacks of Y
NextHandler ==
    \/ \E h \in HTasks, m \in reqMsgs : HandlerArrive(h, m)
    \/ \E h \in HTasks : HandlerForbidden(h)
    \/ \E h \in HTasks : HandlerVerified(h)
    \/ \E h \in HTasks, res \in HandlerResults : HandlerInvoke(h, res)
    \/ \E h \in HTasks : HandlerRespond(h)

\* the message loops of the subscribe() calls of Y
NextSubscriber ==
    \/ \E s \in Subjects, m \in reqMsgs : SubNext(s, m)
    \/ \E s \in Subjects : SubVerified(s)
    \/ \E s \in Subjects : SubDecoded(s)

\* the responding instance Y
NextResponder ==
    \/ \E l \in EventLists : ConfigureAvailableEvents(l)
    \/ \E s \in Subjects : Subscribe(s)
    \/ \E s \in Subjects, n \in BOOLEAN : GetMessages(s, n)
    \/ ConfigureSecretManager("Y")
    \/ NextHandler

Next == NextSend \/ NextSendOther \/ NextListener \/ NextReplies
           \/ NextResponder \/ NextRequests \/ NextSubscriber
           \/ (\E s \in Subjects, reply \in BOOLEAN : InjectPublished(s, reply))
           \/ (\E l \in EventLists : AddAdditionalAvailableEvents(l))
           \/ (\E key \in {"kX", "kX2"} : RotateSecretKey(key))
           \/ (\E name \in {"X", "Y"} : \E key \in StoreKeys(name) : RotateKey(name, key))

\* every operation of both instances, with other processes on the transport
Spec == Init /\ [][Next]_vars

\* X's correlation of replies, against any replies at all
SpecCorrelation == Init /\ [][NextSend \/ NextListener \/ NextReplies]_vars

\* Y's handling of inbound messages, against any requests at all
SpecResponder == Init /\ [][NextResponder \/ NextRequests]_vars

\* every way a message reaches a callback of Y: getMessages and subscribe,
\* against any message at all, with and without headers
NextInbound ==
    \/ NextResponder
    \/ NextSubscriber
    \/ NextRequests
    \/ \E s \in Subjects, reply \in BOOLEAN : InjectPublished(s, reply)

SpecInbound == Init /\ [][NextInbound]_vars

\* the same, where a getMessages callback that can take a step does so in
\* the end: the transport calls the callback with every message it holds for
\* a subscription, and every await of the callback (encode, decode, verify,
\* the handler's promise) settles
SpecResponderFair == SpecResponder /\ WF_vars(NextHandler)

\* a request of X answered by a getMessages handler of Y, with no other
\* process on the transport
NextEndToEnd ==
    \/ \E s \in Subjects : SendMessage(s, TRUE, NoId)
    \/ \E s \in Subjects : SendRawMessage(s)
    \/ \E r \in Requests : EncodePublish(r, TRUE)
    \/ NextListener
    \/ \E l \in EventLists : ConfigureAvailableEvents(l)
    \/ \E s \in Subjects : GetMessages(s, FALSE)
    \/ NextHandler

SpecEndToEnd == Init /\ [][NextEndToEnd]_vars

\* one instance that has an allow-list and publishes: publish and
\* sendMessage without a reply callback, the tasks they start, and the
\* configuration of the instance
NextPublisher ==
    \/ \E s \in Subjects, reply \in BOOLEAN : Publish(s, reply)
    \/ \E s \in Subjects : SendMessage(s, FALSE, NoId)
    \/ \E s \in Subjects, e \in {NoId} \cup ExtIds : SendMessage(s, TRUE, e)
    \/ \E r \in Requests : FetchKeyDone(r)
    \/ \E r \in Requests, ok \in BOOLEAN : EncodePublish(r, ok)
    \/ \E l \in EventLists : ConfigureAvailableEvents(l)
    \/ ConfigureSecretManager("X")

SpecPublisher == Init /\ [][NextPublisher]_vars

\* the send-style calls of X signing their messages, overlapping at the await
\* on the secret store, while the signing key in the store is replaced
NextSigning ==
    \/ \E s \in Subjects, reply \in BOOLEAN : Publish(s, reply)
    \/ \E s \in Subjects, cb \in BOOLEAN : SendMessage(s, cb, NoId)
    \/ \E s \in Subjects : SendRawMessage(s)
    \/ \E r \in Requests : FetchKeyDone(r)
    \/ \E r \in Requests, ok \in BOOLEAN : EncodePublish(r, ok)
    \/ \E key \in {"kX", "kX2"} : RotateSecretKey(key)
    \/ ConfigureSecretManager("X")

SpecSigning == Init /\ [][NextSigning]_vars

\* the configuration of the allow-list of Y and the subscribe() calls it
\* admits or refuses
NextAllowList ==
    \/ \E l \in EventLists : ConfigureAvailableEvents(l)
    \/ \E l \in EventLists : AddAdditionalAvailableEvents(l)
    \/ \E s \in Subjects : Subscribe(s)
    \/ \E s \in Subjects, n \in BOOLEAN : GetMessages(s, n)

SpecAllowList == Init /\ [][NextAllowList]_vars

\* calls of JwtValidator.verify with any token, while the public keys of the
\* secret store are replaced
NextVerify ==
    \/ \E token \in VerifyTokens, mgr \in BOOLEAN : VerifyCall(token, mgr)
    \/ VerifyFetched
    \/ \E name \in {"X", "Y"} : \E key \in StoreKeys(name) : RotateKey(name, key)

SpecVerify == Init /\ [][NextVerify]_vars

\* ================================================================ claims
ReplyExpecting(r) == req[r].kind \in {"send", "timeout", "raw"}

RepliedToFirst(r) == race[r].via \in {"reply", "replyAuthFailed", "replyUnverified"}

\* C1: the closure registered for a messageId is invoked at most once, under
\* any interleaving of reply deliveries (duplicates included) and the timer.
C1_AtMostOnceSettlement ==
    \A r \in Requests : fnCalls[r] <= 1

\* C2: once the timer of a sendMessageWithTimeout call has fired, the call's
\* messageId has no entry in responseCallbacksMap, and unless a reply settled
\* the returned future first, the future is rejected with the timeout error
\* that names the subject.
C2_TimeoutEviction ==
    \A r \in Requests :
        (req[r].kind = "timeout" /\ timer[r] = "fired")
        => /\ responseCallbacksMap[req[r].id] = 0
           /\ race[r].st # "pending"
           /\ ~RepliedToFirst(r)
              => /\ race[r].st = "rejected"
                 /\ race[r].error = "Timeout exceed (" \o req[r].subject \o ")"

\* C2 witness: the timer fired while no reply had settled the request; the
\* future is rejected and the message promise is still pending.
C2_Witness ==
    \E r \in Requests :
        /\ req[r].kind = "timeout" /\ timer[r] = "fired"
        /\ promise[r].st = "pending"
        /\ race[r].st = "rejected" /\ race[r].via = "timeout"

\* C3: the future sendMessageWithTimeout returns is settled once: after it is
\* settled its outcome never changes, and the later of the timer and the
\* reply callback (the timer firing, or the closure being invoked) leaves
\* responseCallbacksMap as it was.
C3_SingleSettlement ==
    [][\A r \in Requests :
          (req[r].kind = "timeout" /\ race[r].st # "pending")
          => /\ race'[r] = race[r]
             /\ (timer'[r] # timer[r] \/ fnCalls'[r] # fnCalls[r])
                => responseCallbacksMap' = responseCallbacksMap]_vars

\* C3 witness: the reply callback was suspended when the timer fired; the
\* timer settled the future, and the closure was invoked afterwards.
C3_Witness ==
    \E r \in Requests :
        /\ req[r].kind = "timeout" /\ timer[r] = "fired"
        /\ race[r].via = "timeout"
        /\ fnCalls[r] >= 1 /\ promise[r].st # "pending"

\* C4: a reply whose messageId has no entry in responseCallbacksMap is
\* dropped: no closure is invoked, no promise changes, the table is unchanged
\* and the callback returns, so that the listener takes the next message.
C4_UnknownReplyDropped ==
    [][\A t \in Tasks, m \in replyMsgs, keep \in BOOLEAN :
          (ReplyArrive(t, m, keep)
             /\ (m.id \notin MapIds \/ responseCallbacksMap[m.id] = 0))
          => /\ responseCallbacksMap' = responseCallbacksMap
             /\ fnCalls' = fnCalls
             /\ promise' = promise
             /\ race' = race
             /\ lt' = lt]_vars

\* C4 witness: a reply for a request the timeout has evicted was dropped, and
\* so was nothing else since.
C4_Witness ==
    \E r \in Requests :
        /\ req[r].kind = "timeout" /\ timer[r] = "fired"
        /\ lastDropped = req[r].id
        /\ fnCalls[r] = 0 /\ promise[r].st = "pending"

\* C5: a send that failed at signing, encoding or publishing after the entry
\* was registered has rejected the returned future and removed the entry.
C5_FailedSendDoesNotLeak ==
    \A r \in Requests :
        (ReplyExpecting(r) /\ req[r].pc = "failed")
        => /\ Returned(r).st = "rejected"
           /\ responseCallbacksMap[req[r].id] # r

RepliedTo(r) == promise[r].via \in {"reply", "replyAuthFailed", "replyUnverified"}

\* C6: a request whose reply failed the verification of its token is
\* rejected with code 401.
C6_AuthFailureIs401 ==
    \A r \in Requests :
        (ReplyExpecting(r) /\ promise[r].via = "replyAuthFailed")
        => (promise[r].st = "rejected" /\ promise[r].code = 401)

\* C7: a request resolved by a reply was resolved after JwtValidator.verify
\* had been called on the reply's token and had returned.
C7_NoSettlementWithoutVerification ==
    \A r \in Requests :
        (RepliedTo(r) /\ promise[r].st = "resolved") => promise[r].via = "reply"

\* C8: with a secret store configured, every message an instance puts on the
\* transport carries a serviceToken signed with that instance's key: the
\* requests of X and the replies of Y's getMessages handlers.
C8_EveryEnvelopeSigned ==
    /\ \A m \in reqMsgs : m.mgr => (m.hdr /\ m.tok = Jwt("X", "kX", FALSE))
    /\ \A m \in replyMsgs :
          (m.from = "Y" /\ m.mgr) => m.tok = Jwt("Y", "kY", FALSE)

\* the allow-list is set and the subject is not a member of it
Excluded(subject) ==
    /\ availableEvents.set
    /\ \A i \in 1..Len(availableEvents.list) : availableEvents.list[i] # subject

\* C9: a getMessages handler is only invoked for a message that passed the
\* access check: the allow-list was unset or held the subject when the
\* message was checked, and a message on an excluded subject goes to the 403
\* reply or is given up.  subscribe on an excluded subject throws and
\* subscribes to nothing; with the allow-list unset, or holding the subject,
\* both admit the subject.
C9_AccessControlPrecedesHandler ==
    /\ [](\A c \in cbLog : ~c.excluded)
    /\ [](\A h \in HTasks : ht[h].pc \in {"verify", "decode", "respond"} => ~ht[h].excluded)
    /\ [][/\ \A h \in HTasks, m \in reqMsgs :
               (ht[h].pc = "idle" /\ ht'[h] # ht[h] /\ reqMsgs' = reqMsgs \ {m})
               => (ht'[h].pc = "verify" <=> ~Excluded(m.subject))
          /\ cbLog' # cbLog
               => \E h \in HTasks : ht[h].pc = "decode" /\ ht'[h] # ht[h]
          /\ \A s \in Subjects :
               (subResult'[s] # subResult[s] \/ s \in subscriptions' \ subscriptions)
               => IF Excluded(s)
                  THEN subResult'[s] = "thrown" /\ subscriptions' = subscriptions
                  ELSE subResult'[s] = "ok" /\ s \in subscriptions']_vars

\* C9 witness: a message on an excluded subject is on its way to the 403
\* reply with no handler invoked, and subscribe has thrown for an excluded
\* subject that has no subscription.
C9_Witness ==
    /\ \E h \in HTasks : ht[h].pc = "forbidden" /\ ht[h].excluded
    /\ \E s \in Subjects : Excluded(s) /\ subResult[s] = "thrown" /\ s \notin subscriptions
    /\ cbLog = {}

\* C10: a request of X that Y answers with its Forbidden reply is rejected
\* with an error that carries code 403, and is not resolved.
C10_ForbiddenReplyCarries403 ==
    \A r \in Requests :
        (ReplyExpecting(r) /\ RepliedTo(r) /\ promise[r].error = "Forbidden")
        => (promise[r].st = "rejected" /\ promise[r].code = 403)

\* C11: publish enforces the allow-list and creates no correlation entry: a
\* publish called while the allow-list was set and did not hold the subject
\* puts no message on the transport, and no step of a publish call (the call,
\* the key fetch, the encode and send) changes responseCallbacksMap.
C11_PublishEnforcesAccessControl ==
    /\ [](\A r \in Requests :
            (req[r].kind = "publish" /\ req[r].excluded) => req[r].pc # "sent")
    /\ [][\A r \in Requests :
            (req'[r].kind = "publish" /\ req'[r] # req[r])
            => responseCallbacksMap' = responseCallbacksMap]_vars

\* C12: every accepted request is answered: a message with a reply subject
\* that passed the access check and the verification of its token in a
\* getMessages callback registered with respond enabled is followed by a reply
\* of the instance that carries the message's messageId, whether the handler
\* returns or throws.
C12_EveryAcceptedRequestAnswered ==
    \A h \in HTasks, id \in {NoId} \cup ExtIds :
        (ht[h].pc = "decode" /\ ~ht[h].noRespond /\ ht[h].reply /\ ht[h].id = id)
        ~> (\E m \in replyMsgs : m.from = "Y" /\ m.id = id)

\* the identity whose private key signed a token ("" = nobody's)
SignedBy(token) ==
    CASE token.key \in {"kX", "kX2"} -> "X"
      [] token.key \in {"kY", "kY2"} -> "Y"
      [] OTHER -> ""

\* C13: with a secret store and a token, verify returns the identity S only
\* if the sub claim of the token is S and its signature validates under the
\* public key the store held for S when verify fetched it; a token signed
\* with the key of one identity whose sub claim names another fails.
C13_SubClaimBinding ==
    /\ [](\A S \in Identities :
            (vt.pc = "done" /\ vt.mgr /\ vt.token.kind # "none" /\ vt.result = S)
            => /\ vt.token.kind = "jwt" /\ vt.token.sub = S
               /\ vt.token.key = vt.sec /\ ~vt.token.expired
               /\ vt.error = "")
    /\ []((vt.pc = "done" /\ vt.mgr /\ vt.token.kind = "jwt"
            /\ SignedBy(vt.token) # "" /\ SignedBy(vt.token) # vt.token.sub)
           => (vt.result = "" /\ vt.error # ""))
    /\ [][(vt.pc = "fetch" /\ vt'.pc = "done")
           => vt'.sec = publicKeys[vt.token.sub]]_vars

\* C13 witness: verify returned the signer of a token that validates under a
\* key the store was given after the services started.
C13_Witness ==
    /\ vt.pc = "done" /\ vt.mgr /\ vt.result = "X" /\ vt.token.sub = "X"
    /\ vt.sec = "kX2" /\ vt.token.key = "kX2"

\* a token that verify accepts: a JWT that has not expired, signed with the
\* key of the service its sub claim names
Authentic(tok) ==
    /\ tok.kind = "jwt" /\ tok.sub # "" /\ ~tok.expired
    /\ PublicKeyOf(tok.sub) # "" /\ tok.key = PublicKeyOf(tok.sub)

\* C14: with a secret store configured, every call of a handler registered by
\* getMessages or by subscribe was made for a message whose serviceToken is
\* authentic; a message with a missing or bad token does not reach one.
C14_UnauthenticatedNeverReachHandler ==
    /\ \A c \in cbLog  : c.mgr => Authentic(c.tok)
    /\ \A c \in subLog : c.mgr => Authentic(c.tok)

\* the cached key never changes once it has a value
CachedKeyNeverChanges ==
    [][privateKey # "" => privateKey' = privateKey]_vars

\* C15: the signing key is initialised exactly once: at no time are two sign
\* calls waiting for the secret store to give the private key (each such call
\* is a fetch of its own), and once JwtValidator.privateKey has a value that
\* value never changes.
C15_SigningKeyInitialisedOnce ==
    /\ [](Cardinality({r \in Requests : req[r].pc = "fetchKey"}) <= 1)
    /\ CachedKeyNeverChanges

\* C16: addAdditionalAvailableEvents called while the allow-list is unset
\* fails and leaves it unset: the list goes from unset to set in no step of
\* such a call, and a call that throws changes nothing.  Called while the
\* list is set it never throws, and the new list is the old list, every
\* subject still in its place, followed by the added subjects.
C16_ExtendIsGuarded ==
    /\ [](~availableEvents.set => "ok" \notin addResult)
    /\ [][/\ (~availableEvents.set /\ availableEvents'.set) => addResult' = addResult
          /\ "thrown" \in addResult' \ addResult
               => (~availableEvents.set /\ availableEvents' = availableEvents)
          /\ ("ok" \in addResult' \ addResult
                \/ (availableEvents.set
                     /\ Len(availableEvents'.list) > Len(availableEvents.list)))
               => /\ availableEvents.set /\ availableEvents'.set
                  /\ addResult' = addResult \cup {"ok"}
                  /\ Len(availableEvents'.list) > Len(availableEvents.list)
                  /\ \A i \in 1..Len(availableEvents.list) :
                        availableEvents'.list[i] = availableEvents.list[i]
                  /\ \E l \in EventLists :
                        \A i \in 1..Len(l) :
                          availableEvents'.list[Len(availableEvents.list) + i] = l[i]]_vars

\* C16 witness: a call on the unset list has thrown, and a later call on the
\* configured list has added a subject to it.
C16_Witness ==
    /\ addResult = {"thrown", "ok"}
    /\ availableEvents.set /\ Len(availableEvents.list) = 2
    /\ availableEvents.list[1] # availableEvents.list[2]

\* C17: the allow-list is append-only: a set list stays set, and a subject
\* that is a member of it is a member after every step.
C17_AllowListAppendOnly ==
    [][availableEvents.set
       => /\ availableEvents'.set
          /\ \A s \in Subjects :
                (\E i \in 1..Len(availableEvents.list) : availableEvents.list[i] = s)
                => (\E i \in 1..Len(availableEvents'.list) :
                      availableEvents'.list[i] = s)]_vars

\* C18: every token that fails a cryptographic check makes verify fail with
\* the one generic error: a token that is not a well-formed JWT, and a JWT
\* with a sub claim, checked against the key the store holds for it, that has
\* expired or was signed with another key.
C18_FailuresIndistinguishable ==
    (/\ vt.pc = "done" /\ vt.mgr
     /\ \/ vt.token.kind = "garbage"
        \/ /\ vt.token.kind = "jwt" /\ vt.token.sub # "" /\ vt.sec # ""
           /\ (vt.token.expired \/ vt.token.key # vt.sec))
    => (vt.result = "" /\ vt.error = "JWTValidator: invalid or expired token")

\* the removal at the end of a reply callback removes the entry the callback
\* looked up, and no entry registered since
RemovalOfLookedUpEntry ==
    [][\A t \in Tasks :
          (lt[t].pc # "idle" /\ lt'[t].pc = "idle")
          => responseCallbacksMap[lt[t].msg.id] = lt[t].fn]_vars

\* C19: remove-then-settle is atomic in the reply listener: while a reply
\* callback is between its lookup of an entry and the removal of it, every
\* step is a step of that callback (no timer fires, no other reply is taken,
\* no send registers), and the removal removes the entry that was looked up.
C19_RemoveThenSettleAtomic ==
    /\ [][\A t \in Tasks : lt[t].pc # "idle" => lt'[t] # lt[t]]_vars
    /\ RemovalOfLookedUpEntry

\* C20: correlation uniqueness: registering a request never replaces the
\* entry of another request whose future is still pending, so every
\* reply-expecting call that is not settled (and whose send has not failed)
\* has its own entry in responseCallbacksMap.
C20_CorrelationUniqueness ==
    /\ [][\A id \in MapIds :
            (responseCallbacksMap[id] # 0
               /\ responseCallbacksMap'[id] \notin {0, responseCallbacksMap[id]})
            => Returned(responseCallbacksMap[id]).st # "pending"]_vars
    /\ [](\A r \in Requests :
            (ReplyExpecting(r) /\ Returned(r).st = "pending"
               /\ promise[r].st = "pending")
            => responseCallbacksMap[req[r].id] = r)

====
